---- MODULE Spec2Model ----
(***************************************************************************)
(* A model of statica.py: the build pipeline (clean, per-section           *)
(* rendering, homepage, sitemap) and the watch loop that re-runs it on     *)
(* filesystem events.                                                      *)
(*                                                                         *)
(* Representation.                                                         *)
(*   - A path below OUTPUT_PATH is the sequence of its components,         *)
(*     <<"blog", "a", "index.html">> for dist/blog/a/index.html.           *)
(*   - A file name is [stem, ext]; os.path.splitext splits it there.       *)
(*   - A date string "YYYY-MM-DD" is the tuple <<Y, M, D>>; strptime       *)
(*     turns it into a value compared by year, then month, then day.       *)
(*   - Item metadata is a function from the keys the file gives to         *)
(*     their values; a key the file does not give is not in its DOMAIN.    *)
(*   - A file of the output tree records who wrote it (kind, sec, slug),   *)
(*     in which build, and the context its template was rendered with.     *)
(*   - A <url> of the sitemap tree records its loc, and (history only)     *)
(*     the section and build that added it.                                *)
(***************************************************************************)
EXTENDS Integers, Sequences, FiniteSets

VARIABLES
    args,        \* the action chosen on the command line: "build" or "watch"
    SECTIONS,    \* the configured section names, in declared order
    content,     \* INPUT_PATH: section -> directory listing (sequence of files)
    output,      \* OUTPUT_PATH: path -> file
    root,        \* the module-level <urlset> element: sequence of <url>
    mainPc,      \* main thread: "start", "build", "built", "watch", "done",
                 \*   "crashed"
    observerPc,  \* watchdog's dispatch thread: "unstarted", "waiting",
                 \*   "handling", "dead"
    eventQueue,  \* the observer's queue of undispatched events (their number)
    now,         \* StaticaChangeHandler.now
    previous,    \* StaticaChangeHandler.previous
    clock,       \* datetime.now(), in seconds
    active,      \* number of executions of build() in progress
    bpc,         \* position inside build(): "idle", "clean", "sections",
                 \*   "home", "sitemap"
    secIdx,      \* index in SECTIONS of the next section to render
    items,       \* build()'s local dict `items`, in insertion order
    buildNo,     \* number of calls of build() so far
    nEvents,     \* number of filesystem events so far
    delivered,   \* history: clock at each call of on_any_event
    trace,       \* history: the steps the current build has completed
    failed,      \* history: some build() raised
    edited,      \* history: a content file changed since the start
    seen,        \* history: each section's listing as the current build read it
    before       \* history: the output tree when the current build was entered

vars == <<args, SECTIONS, content, output, root, mainPc, observerPc, eventQueue,
          now, previous, clock, active, bpc, secIdx, items, buildNo, nEvents,
          delivered, trace, failed, edited, seen, before>>

----------------------------------------------------------------------------
(* Bounds of the model *)

MaxFiles == 3
MaxBuilds == 3
MaxQueue == 2
MaxTime == 3
MaxEvents == 2

(* Program constants *)

TIME_DELAY == 3

----------------------------------------------------------------------------
(* Sequences *)

Range(s) == {s[i] : i \in 1..Len(s)}

Reverse(s) == [i \in 1..Len(s) |-> s[Len(s) + 1 - i]]

IsPrefix(p, s) == Len(p) <= Len(s) /\ SubSeq(s, 1, Len(p)) = p

Take(s, n) == SubSeq(s, 1, n)

----------------------------------------------------------------------------
(* Metadata and dates *)

\* dict.get(key, default)
Get(m, key, default) == IF key \in DOMAIN m THEN m[key] ELSE default

\* datetime.strptime(s, '%Y-%m-%d')
strptime(s) == [year |-> s[1], month |-> s[2], day |-> s[3]]

\* datetime.__lt__
DateLess(a, b) ==
    \/ a.year < b.year
    \/ a.year = b.year /\ a.month < b.month
    \/ a.year = b.year /\ a.month = b.month /\ a.day < b.day

\* the sort key of line 111
SortKey(file) == strptime(file.metadata["date"])

\* os.path.splitext(name)
splitext(name) == <<name.stem, name.ext>>

\* line 120: file_name = os.path.splitext(item)[0]
file_name(file) == splitext(file.name)[1]

\* line 122: item_metadata.get('draft', "") == "true"
IsDraft(file) == Get(file.metadata, "draft", "") = "true"

----------------------------------------------------------------------------
(* sorted(..., key=..., reverse=True): a stable sort; with reverse=True     *)
(* the list is reversed, sorted ascending and reversed again, which keeps   *)
(* elements of equal keys in their original order.                          *)

RECURSIVE InsertAsc(_, _)
InsertAsc(sorted, x) ==
    IF sorted = <<>> THEN <<x>>
    ELSE IF DateLess(SortKey(x), SortKey(sorted[Len(sorted)]))
         THEN InsertAsc(Take(sorted, Len(sorted) - 1), x) \o <<sorted[Len(sorted)]>>
         ELSE sorted \o <<x>>

RECURSIVE SortAsc(_)
SortAsc(s) ==
    IF s = <<>> THEN <<>>
    ELSE InsertAsc(SortAsc(Take(s, Len(s) - 1)), s[Len(s)])

\* a descending sort that forgets the two reversals' purpose
SortedReverseUnstable(s) == Reverse(SortAsc(s))

\* lines 108-113
SortedReverse(s) == Reverse(SortAsc(Reverse(s)))

----------------------------------------------------------------------------
(* The output tree *)

File(kind, sec, slug, build, list, model, urls) ==
    [kind |-> kind, sec |-> sec, slug |-> slug, build |-> build,
     list |-> list, model |-> model, urls |-> urls]

\* open(path, 'w').write(...): creates the file or replaces what is there
Write(out, path, file) ==
    [p \in DOMAIN out \cup {path} |-> IF p = path THEN file ELSE out[p]]

Restrict(out, paths) == [p \in paths |-> out[p]]

\* os.listdir(OUTPUT_PATH)
listdir(out) == {p[1] : p \in DOMAIN out}

IsDir(out, entry) == \E p \in DOMAIN out : Len(p) > 1 /\ p[1] = entry

\* a directory of the output tree exists when some file lies below it
DirExists(out, dir) ==
    dir = <<>> \/ \E p \in DOMAIN out : Len(p) > Len(dir) /\ IsPrefix(dir, p)

\* shutil.rmtree(filepath) on a directory
rmtree(out, entry) == Restrict(out, {p \in DOMAIN out : p[1] # entry})

\* os.remove(filepath) on a plain file
remove(out, entry) == Restrict(out, DOMAIN out \ {<<entry>>})

\* lines 206-209 with the except branch a no-op
RemoveEntryNoFallback(out, entry) ==
    IF IsDir(out, entry) THEN rmtree(out, entry) ELSE out

\* lines 206-209: rmtree raises OSError on a plain file, which os.remove takes
RemoveEntry(out, entry) ==
    IF IsDir(out, entry) THEN rmtree(out, entry) ELSE remove(out, entry)

RECURSIVE RemoveAll(_, _)
RemoveAll(out, entries) ==
    IF entries = {} THEN out
    ELSE LET e == CHOOSE x \in entries : TRUE
         IN  RemoveAll(RemoveEntry(out, e), entries \ {e})

\* the files of ASSETS_INPUT_PATH and of STATIC_FOLDER
AssetFiles == {"style.css"}
StaticFiles == {"robots.txt"}

\* line 210: shutil.copytree(ASSETS_INPUT_PATH, ASSETS_OUTPUT_PATH); an
\* existing destination raises OSError, which is printed and dropped
copy_folder(out, n) ==
    IF DirExists(out, <<"assets">>) \/ <<"assets">> \in DOMAIN out THEN out
    ELSE [p \in DOMAIN out \cup {<<"assets", f>> : f \in AssetFiles} |->
            IF p \in DOMAIN out THEN out[p]
            ELSE File("asset", "", p[2], n, <<>>, <<>>, <<>>)]

\* line 211: every file of STATIC_FOLDER copied into OUTPUT_PATH
copy_files(out, n) ==
    [p \in DOMAIN out \cup {<<f>> : f \in StaticFiles} |->
        IF p[1] \in StaticFiles /\ Len(p) = 1
        THEN File("static", "", p[1], n, <<>>, <<>>, <<>>)
        ELSE out[p]]

\* Statica.clean, run as build number n
clean(out, n) == copy_files(copy_folder(RemoveAll(out, listdir(out)), n), n)

----------------------------------------------------------------------------
(* __build_content *)

\* lines 125-136 (the fields the templates' callers depend on)
item_data(file) == [slug |-> file_name(file), date |-> file.metadata["date"]]

\* lines 138-141; sec and build are history, the XML holds loc only
Url(sec, file, n) == [loc |-> file_name(file), sec |-> sec, build |-> n]

\* lines 172-180: the output directory build() passes for a section
OutputDir(section) == IF section = "pages" THEN <<>> ELSE <<section>>

\* lines 172-180: `pages` is built without a list_template
HasListTemplate(section) == section # "pages"

\* line 144
item_file_path(dir, file) == dir \o <<file_name(file), "index.html">>

\* lines 116-123: the sorted files that pass the draft test
Published(listing) == SelectSeq(SortedReverse(listing), LAMBDA f : ~IsDraft(f))

\* lines 125-142: processed_items, one item_data per published file
processed_items(files) == [i \in 1..Len(files) |-> item_data(files[i])]

\* lines 143-152 for the first k published files, in order
RECURSIVE WriteItems(_, _, _, _, _)
WriteItems(out, section, files, k, n) ==
    IF k = 0 THEN out
    ELSE Write(WriteItems(out, section, files, k - 1, n),
               item_file_path(OutputDir(section), files[k]),
               File("item", section, file_name(files[k]), n, <<>>, <<>>, <<>>))

\* lines 154-161: the listing page, rendered with items=processed_items
WriteList(out, section, processed, n) ==
    Write(out, OutputDir(section) \o <<"index.html">>,
          File("list", section, "", n, processed, <<>>, <<>>))

\* lines 158: open() of the listing raises when its directory is missing
ListWritable(out, section) == DirExists(out, OutputDir(section))

----------------------------------------------------------------------------
(* build(): one action per step, run by the thread that called it *)

\* items[section] = ... on a dict that keeps insertion order
DictSet(d, key, value) ==
    IF \E i \in 1..Len(d) : d[i][1] = key
    THEN [i \in 1..Len(d) |-> IF d[i][1] = key THEN <<key, value>> ELSE d[i]]
    ELSE Append(d, <<key, value>>)

Step(name, sec) == [step |-> name, sec |-> sec]

\* the reverse of the declared order
SectionAtReversed(i) == SECTIONS[Len(SECTIONS) + 1 - i]

\* line 171: for section in SECTIONS
SectionAt(i) == SECTIONS[i]

\* lines 164-170: build() is entered; nothing stops a second entry
EnterBuild ==
    /\ buildNo < MaxBuilds
    /\ active' = active + 1
    /\ buildNo' = buildNo + 1
    /\ bpc' = "clean"
    /\ secIdx' = 1
    /\ items' = <<>>
    /\ trace' = <<>>
    /\ seen' = [s \in DOMAIN content |-> <<>>]
    /\ before' = output

\* build() returns to its caller: main (lines 240, 244) or on_any_event (72)
Return ==
    /\ active' = active - 1
    /\ bpc' = "idle"
    /\ IF mainPc = "build"
       THEN /\ mainPc' = IF args = "build" THEN "done" ELSE "built"
            /\ UNCHANGED observerPc
       ELSE /\ observerPc' = "waiting"
            /\ UNCHANGED mainPc

\* build() raises: no caller catches, the calling thread ends
Raise ==
    /\ active' = active - 1
    /\ bpc' = "idle"
    /\ failed' = TRUE
    /\ IF mainPc = "build"
       THEN mainPc' = "crashed" /\ UNCHANGED observerPc
       ELSE observerPc' = "dead" /\ UNCHANGED mainPc

\* main, lines 239-240 and 243-244
MainCallBuild ==
    /\ mainPc = "start"
    /\ mainPc' = "build"
    /\ EnterBuild
    /\ UNCHANGED <<edited>>
    /\ UNCHANGED <<args, SECTIONS, content, output, root, observerPc, eventQueue,
                   now, previous, clock, nEvents, delivered, failed>>

\* line 166: self.clean()
DoClean ==
    /\ bpc = "clean"
    /\ output' = clean(output, buildNo)
    /\ trace' = Append(trace, Step("clean", ""))
    /\ bpc' = IF SECTIONS = <<>> THEN "home" ELSE "sections"
    /\ UNCHANGED <<edited, seen, before>>
    /\ UNCHANGED <<args, SECTIONS, content, root, mainPc, observerPc, eventQueue,
                   now, previous, clock, active, secIdx, items, buildNo, nEvents,
                   delivered, failed>>

\* lines 171-180: one iteration of the loop, __build_content to its return
DoSection ==
    /\ bpc = "sections"
    /\ LET section == SectionAt(secIdx)
           files == Published(content[section])
           n == Len(files)
           written == WriteItems(output, section, files, n, buildNo)
           processed == processed_items(files)
       IN  /\ HasListTemplate(section) => ListWritable(written, section)
           /\ output' = IF HasListTemplate(section)
                        THEN WriteList(written, section, processed, buildNo)
                        ELSE written
           /\ root' = root \o [i \in 1..n |-> Url(section, files[i], buildNo)]
           /\ items' = DictSet(items, section, processed)
           /\ trace' = Append(trace, Step("section", section))
           /\ seen' = [seen EXCEPT ![section] = content[section]]
    /\ secIdx' = secIdx + 1
    /\ bpc' = IF secIdx = Len(SECTIONS) THEN "home" ELSE "sections"
    /\ UNCHANGED <<edited, before>>
    /\ UNCHANGED <<args, SECTIONS, content, mainPc, observerPc, eventQueue, now,
                   previous, clock, active, buildNo, nEvents, delivered, failed>>

\* __build_content raises: at = 0 while loading or sorting (lines 100-113),
\* at = i while rendering or writing the i-th published item (lines 143-152,
\* its <url> is already added), at = n + 1 while writing the listing (lines
\* 154-161; always so when the section's output directory does not exist)
SectionFail ==
    /\ bpc = "sections"
    /\ LET section == SectionAt(secIdx)
           files == Published(content[section])
           n == Len(files)
       IN  \E at \in 0..(n + 1) :
             LET k == IF at = 0 THEN 0 ELSE at - 1
                 u == IF at > n THEN n ELSE at
             IN  /\ at = n + 1 => HasListTemplate(section)
                 /\ output' = WriteItems(output, section, files, k, buildNo)
                 /\ root' = root \o [i \in 1..u |-> Url(section, files[i], buildNo)]
    /\ Raise
    /\ UNCHANGED <<edited, seen, before>>
    /\ UNCHANGED <<args, SECTIONS, content, eventQueue, now, previous, clock,
                   secIdx, items, buildNo, nEvents, delivered, trace>>

\* lines 182-184
DoHome ==
    /\ bpc = "home"
    /\ output' = Write(output, <<"index.html">>,
                       File("home", "", "", buildNo, <<>>, items, <<>>))
    /\ trace' = Append(trace, Step("home", ""))
    /\ bpc' = "sitemap"
    /\ UNCHANGED <<edited, seen, before>>
    /\ UNCHANGED <<args, SECTIONS, content, root, mainPc, observerPc, eventQueue,
                   now, previous, clock, active, secIdx, items, buildNo, nEvents,
                   delivered, failed>>

\* lines 186-191: the sitemap is the whole tree under `root`; build() returns
DoSitemap ==
    /\ bpc = "sitemap"
    /\ output' = Write(output, <<"sitemap.xml">>,
                       File("sitemap", "", "", buildNo, <<>>, <<>>, root))
    /\ trace' = Append(trace, Step("sitemap", ""))
    /\ Return
    /\ UNCHANGED <<edited, seen, before>>
    /\ UNCHANGED <<args, SECTIONS, content, root, eventQueue, now, previous,
                   clock, secIdx, items, buildNo, nEvents, delivered, failed>>

\* clean(), the homepage or the sitemap raises (a removal that fails, a
\* missing template, a file that cannot be opened) before changing the tree
StepFail ==
    /\ bpc \in {"clean", "home", "sitemap"}
    /\ Raise
    /\ UNCHANGED <<edited, seen, before>>
    /\ UNCHANGED <<args, SECTIONS, content, output, root, eventQueue, now,
                   previous, clock, secIdx, items, buildNo, nEvents, delivered,
                   trace>>

----------------------------------------------------------------------------
(* Inputs *)

NoFiles == [p \in {} |-> 0]

Stale(slug) == File("stale", "", slug, 0, <<>>, <<>>, <<>>)

\* output trees left by earlier runs: nothing; a plain file, a page of an
\* item that is gone, and old assets
StaleTrees ==
    { NoFiles,
      [p \in {<<"old.html">>, <<"blog", "gone", "index.html">>,
              <<"assets", "old.css">>} |-> Stale(p[1])] }

Absent == "<absent>"

Meta(date, draft) ==
    IF draft = Absent THEN [date |-> date] ELSE [date |-> date, draft |-> draft]

Md(stem) == [stem |-> stem, ext |-> "md"]

Files(names, dates, drafts) ==
    {[name |-> f, metadata |-> Meta(d, dr)] : f \in names, d \in dates, dr \in drafts}

\* directory listings: at most max files, no name twice
Listings(names, dates, drafts, max) ==
    UNION {{l \in [1..n -> Files(names, dates, drafts)] :
              \A i, j \in 1..n : i # j => l[i].name # l[j].name} : n \in 0..max}

AllSections == {"pages", "blog", "news"}

Stems == <<"a", "b", "c", "d", "e">>

Dates == {<<2024, 1, 1>>, <<2024, 3, 1>>, <<2023, 12, 31>>}

InitCommon ==
    /\ root = <<>>
    /\ mainPc = "start"
    /\ observerPc = "unstarted"
    /\ eventQueue = 0
    /\ now = 0
    /\ previous = 0 - TIME_DELAY
    /\ clock = 0
    /\ active = 0
    /\ bpc = "idle"
    /\ secIdx = 1
    /\ items = <<>>
    /\ buildNo = 0
    /\ nEvents = 0
    /\ delivered = <<>>
    /\ trace = <<>>
    /\ failed = FALSE
    /\ edited = FALSE
    /\ seen = [s \in AllSections |-> <<>>]
    /\ before = NoFiles

\* one section, up to MaxFiles files, dates that tie and dates that differ
InitOrdering ==
    /\ SECTIONS = <<"blog">>
    /\ output = NoFiles
    /\ \E l \in Listings({Md(Stems[i]) : i \in 1..MaxFiles}, Dates, {Absent, "true"}, MaxFiles) :
         content = [s \in AllSections |-> IF s = "blog" THEN l ELSE <<>>]

\* several sections, slugs that equal a section's name, stale output
InitLayout ==
    /\ SECTIONS \in {<<"pages", "blog">>, <<"blog", "pages">>, <<"blog", "news">>}
    /\ output \in StaleTrees
    /\ \E lp, lb \in Listings({Md("a"), Md("blog"), [stem |-> "a", ext |-> "txt"]},
                              {<<2024, 1, 1>>},
                              {Absent, "true", "True"}, 2) :
         content = [s \in AllSections |->
                      IF s = "blog" THEN lb ELSE IF s = SECTIONS[1] \/ s = SECTIONS[2] THEN lp ELSE <<>>]

InitBuild ==
    /\ args = "build"
    /\ InitCommon
    /\ InitOrdering \/ InitLayout

NextBuild ==
    \/ MainCallBuild
    \/ DoClean
    \/ DoSection
    \/ SectionFail
    \/ DoHome
    \/ DoSitemap
    \/ StepFail

\* python statica.py -b
SpecBuild == InitBuild /\ [][NextBuild]_vars

----------------------------------------------------------------------------
(* Watch mode *)

\* a handler that is run on a thread of its own for every event
ObserverFreeAlways == observerPc \in {"waiting", "handling"}

\* lines 217-219: one Observer, whose single thread takes an event from its
\* queue and runs the handler to its return before it takes the next
ObserverFree == observerPc = "waiting"

\* lines 213-219: watch() builds the handler (lines 62-65) and starts the
\* observer; the main thread then sleeps (lines 220-222)
Watch ==
    /\ mainPc = "built"
    /\ mainPc' = "watch"
    /\ observerPc' = "waiting"
    /\ now' = clock
    /\ previous' = clock - TIME_DELAY
    /\ UNCHANGED <<edited, seen, before>>
    /\ UNCHANGED <<args, SECTIONS, content, output, root, eventQueue, clock,
                   active, bpc, secIdx, items, buildNo, nEvents, delivered,
                   trace, failed>>

\* the draft field of the i-th file of a section set to "true" or removed
ToggleDraft(section, i) ==
    [content EXCEPT ![section][i] =
        [name |-> @.name,
         metadata |-> Meta(@.metadata["date"], IF IsDraft(@) THEN Absent ELSE "true")]]

\* something changes under SRC_FOLDER: a content file is edited, or a file
\* the build does not read; a started observer queues one event for it
FsEvent ==
    /\ nEvents < MaxEvents
    /\ nEvents' = nEvents + 1
    /\ \/ UNCHANGED <<content, edited>>
       \/ \E section \in Range(SECTIONS) : \E i \in 1..Len(content[section]) :
            content' = ToggleDraft(section, i) /\ edited' = TRUE
    /\ UNCHANGED <<seen, before>>
    /\ IF observerPc = "unstarted"
       THEN UNCHANGED eventQueue
       ELSE eventQueue < MaxQueue /\ eventQueue' = eventQueue + 1
    /\ UNCHANGED <<args, SECTIONS, output, root, mainPc, observerPc, now, previous,
                   clock, active, bpc, secIdx, items, buildNo, delivered, trace,
                   failed>>

\* lines 67-72: on_any_event, up to its call of build()
OnAnyEvent ==
    /\ ObserverFree
    /\ eventQueue > 0
    /\ eventQueue' = eventQueue - 1
    /\ previous' = now
    /\ now' = clock
    /\ delivered' = Append(delivered, clock)
    /\ observerPc' = "handling"
    /\ EnterBuild
    /\ UNCHANGED <<edited>>
    /\ UNCHANGED <<args, SECTIONS, content, output, root, mainPc, clock, nEvents,
                   failed>>

\* a second passes
Tick ==
    /\ clock < MaxTime
    /\ clock' = clock + 1
    /\ UNCHANGED <<edited, seen, before>>
    /\ UNCHANGED <<args, SECTIONS, content, output, root, mainPc, observerPc,
                   eventQueue, now, previous, active, bpc, secIdx, items, buildNo,
                   nEvents, delivered, trace, failed>>

Item(stem, date, draft) == [name |-> Md(stem), metadata |-> Meta(date, draft)]

Init ==
    /\ args = "watch"
    /\ InitCommon
    /\ SECTIONS = <<"pages", "blog">>
    /\ output \in StaleTrees
    /\ \E d1, d2 \in {Absent, "true"} :
         content = [s \in AllSections |->
                      IF s = "pages" THEN <<Item("about", <<2024, 1, 1>>, d1)>>
                      ELSE IF s = "blog" THEN <<Item("a", <<2024, 1, 1>>, Absent),
                                                Item("b", <<2024, 3, 1>>, d2)>>
                      ELSE <<>>]

Next ==
    \/ MainCallBuild
    \/ DoClean
    \/ DoSection
    \/ SectionFail
    \/ DoHome
    \/ DoSitemap
    \/ StepFail
    \/ Watch
    \/ FsEvent
    \/ OnAnyEvent
    \/ Tick

\* python statica.py
Spec == Init /\ [][Next]_vars

----------------------------------------------------------------------------
(* Properties *)

\* the last call of build() ran to its end and no other has been entered
Completed ==
    /\ bpc = "idle"
    /\ trace # <<>>
    /\ trace[Len(trace)].step = "sitemap"

Slugs(list) == {list[i].slug : i \in 1..Len(list)}

\* the files of a section, as the build read them, that are drafts or not
DraftFiles(section) == {f \in Range(seen[section]) : IsDraft(f)}
LiveFiles(section) == {f \in Range(seen[section]) : ~IsDraft(f)}

\* C1: in watch mode at most one execution of build() is in progress at any
\* time, whatever events arrive and whenever they arrive.
C1_NoOverlappingBuilds == active <= 1

\* an event is queued while the observer's build is still running
C1_EventDuringBuild ==
    /\ observerPc = "handling"
    /\ active = 1
    /\ bpc = "sections"
    /\ eventQueue > 0

\* the number of debounce windows a sequence of delivery times spans: the
\* first event opens a window, an event TIME_DELAY or more after the
\* window's start opens the next
RECURSIVE Windows(_, _, _)
Windows(times, i, start) ==
    IF i > Len(times) THEN 0
    ELSE IF i = 1 \/ times[i] - start >= TIME_DELAY
         THEN 1 + Windows(times, i + 1, times[i])
         ELSE Windows(times, i + 1, start)

\* C2: the events delivered to on_any_event within one debounce window
\* trigger exactly one build(), and an event delivered after the window has
\* elapsed triggers another: the handler has started as many builds as the
\* deliveries span windows.
C2_OneBuildPerWindow ==
    mainPc = "watch" => buildNo - 1 = Windows(delivered, 1, 0)

\* C3: on unchanged input the sitemap a build writes holds no <url> carried
\* over from an earlier build, and one <url> per item the build published.
C3_SitemapResetEachBuild ==
    (Completed /\ ~edited) =>
        LET sitemap == output[<<"sitemap.xml">>]
        IN  /\ \A i \in 1..Len(sitemap.urls) : sitemap.urls[i].build = sitemap.build
            /\ \A k \in 1..Len(items) : \A it \in Range(items[k][2]) :
                 Cardinality({i \in 1..Len(sitemap.urls) :
                                /\ sitemap.urls[i].sec = items[k][1]
                                /\ sitemap.urls[i].loc = it.slug}) = 1

\* C4: after a completed build, an item whose draft field is "true" has no
\* page, is in no listing context, not in the homepage model and not in the
\* sitemap; an item with any other draft field, or none, is in the homepage
\* model.
C4_DraftsNeverPublished ==
    Completed =>
        \A k \in 1..Len(SECTIONS) :
          LET section == SECTIONS[k]
              home == output[<<"index.html">>]
              sitemap == output[<<"sitemap.xml">>]
          IN  /\ \A f \in DraftFiles(section) :
                   file_name(f) \notin {file_name(g) : g \in LiveFiles(section)} =>
                     /\ \A p \in DOMAIN output :
                          ~(/\ output[p].kind = "item"
                            /\ output[p].sec = section
                            /\ output[p].slug = file_name(f))
                     /\ \A p \in DOMAIN output :
                          (output[p].kind = "list" /\ output[p].sec = section)
                            => file_name(f) \notin Slugs(output[p].list)
                     /\ \A i \in 1..Len(home.model) :
                          home.model[i][1] = section
                            => file_name(f) \notin Slugs(home.model[i][2])
                     /\ \A i \in 1..Len(sitemap.urls) :
                          ~(/\ sitemap.urls[i].sec = section
                            /\ sitemap.urls[i].loc = file_name(f))
              /\ \A f \in LiveFiles(section) :
                   \E i \in 1..Len(home.model) :
                     /\ home.model[i][1] = section
                     /\ file_name(f) \in Slugs(home.model[i][2])

\* C5: when `pages` is a configured section, the <url>s one build adds are
\* those of the non-draft items of the other sections, and none is of an
\* item of `pages`.
C5_SitemapExcludesPages ==
    (Completed /\ "pages" \in Range(SECTIONS)) =>
        {<<root[i].sec, root[i].loc>> : i \in {j \in 1..Len(root) : root[j].build = buildNo}}
          = UNION {{<<section, file_name(f)>> : f \in LiveFiles(section)} :
                     section \in Range(SECTIONS) \ {"pages"}}

\* C6: a watch-triggered build that fails does not end the watching: the
\* thread that runs the handler is still there to take the next event.
C6_WatchSurvivesFailedBuild ==
    mainPc = "watch" => observerPc \in {"waiting", "handling"}

UniqueSlugs(section) ==
    \A i, j \in 1..Len(seen[section]) :
      i # j => file_name(seen[section][i]) # file_name(seen[section][j])

\* C7: after a completed build over slugs that are unique within each
\* section, every non-draft item's page is the file at the path its section
\* and slug determine.
C7_EveryItemKeepsItsPage ==
    (Completed /\ \A k \in 1..Len(SECTIONS) : UniqueSlugs(SECTIONS[k])) =>
        \A k \in 1..Len(SECTIONS) : \A f \in LiveFiles(SECTIONS[k]) :
          LET path == item_file_path(OutputDir(SECTIONS[k]), f)
          IN  /\ path \in DOMAIN output
              /\ output[path].kind = "item"
              /\ output[path].sec = SECTIONS[k]
              /\ output[path].slug = file_name(f)
              /\ output[path].build = buildNo

CurrentKinds == {"item", "list", "home", "sitemap", "asset", "static"}

\* C8: after a completed build every file of the output tree was written or
\* copied by that build; nothing that was there before it is left.
C8_StaleFilesGone ==
    Completed =>
        \A p \in DOMAIN output :
          /\ output[p].build = buildNo
          /\ output[p].kind \in CurrentKinds

\* a build has completed over a tree that held a stale plain file, a stale
\* directory and stale assets
C8_BuiltOverStale ==
    /\ Completed
    /\ <<"old.html">> \in DOMAIN before
    /\ <<"blog", "gone", "index.html">> \in DOMAIN before
    /\ before[<<"old.html">>].kind = "stale"

\* `list` holds the non-draft files of `listing`, each once, by date
\* descending, files of equal dates in the order of `listing`
StableByDateDesc(list, listing) ==
    \E pos \in [1..Len(list) -> 1..Len(listing)] :
      /\ \A i \in 1..Len(list) :
           /\ ~IsDraft(listing[pos[i]])
           /\ list[i] = item_data(listing[pos[i]])
      /\ \A j \in 1..Len(listing) :
           ~IsDraft(listing[j]) => \E i \in 1..Len(list) : pos[i] = j
      /\ \A i, j \in 1..Len(list) :
           i < j =>
             \/ DateLess(SortKey(listing[pos[j]]), SortKey(listing[pos[i]]))
             \/ /\ SortKey(listing[pos[j]]) = SortKey(listing[pos[i]])
                /\ pos[i] < pos[j]

DatesOf(list) == [i \in 1..Len(list) |-> list[i].date]

\* C9: what __build_content returns for a section, and what it renders the
\* listing with, is the section's non-draft items by date descending, items
\* of equal dates in directory order; dates 2024-01-01, 2024-03-01,
\* 2023-12-31 come out as 2024-03-01, 2024-01-01, 2023-12-31.
C9_OrderedByDateDesc ==
    /\ \A k \in 1..Len(items) :
         /\ StableByDateDesc(items[k][2], seen[items[k][1]])
         /\ (/\ Len(seen[items[k][1]]) = 3
             /\ \A i \in 1..3 : ~IsDraft(seen[items[k][1]][i])
             /\ [i \in 1..3 |-> seen[items[k][1]][i].metadata["date"]]
                  = <<<<2024, 1, 1>>, <<2024, 3, 1>>, <<2023, 12, 31>>>>)
              => DatesOf(items[k][2]) = <<<<2024, 3, 1>>, <<2024, 1, 1>>, <<2023, 12, 31>>>>
    /\ \A p \in DOMAIN output :
         (output[p].kind = "list" /\ output[p].build = buildNo /\ buildNo > 0)
           => StableByDateDesc(output[p].list, seen[output[p].sec])

\* a section of three published items, the first and last of the directory
\* of one date and the middle one later, has been rendered
C9_TieRendered ==
    \E k \in 1..Len(items) :
      LET listing == seen[items[k][1]]
      IN  /\ Len(listing) = 3
          /\ Len(items[k][2]) = 3
          /\ listing[1].metadata["date"] = listing[3].metadata["date"]
          /\ DateLess(SortKey(listing[1]), SortKey(listing[2]))
          /\ <<"blog", "index.html">> \in DOMAIN output

\* the steps of a build, in the order build() performs them
ExpectedSteps ==
    <<Step("clean", "")>>
      \o [i \in 1..Len(SECTIONS) |-> Step("section", SECTIONS[i])]
      \o <<Step("home", ""), Step("sitemap", "")>>

WrittenInOrder ==
    /\ IsPrefix(trace, ExpectedSteps)
    /\ (active > 0 /\ trace = <<>>) => bpc = "clean"
    /\ ~failed =>
         \A p \in DOMAIN output :
           (output[p].build = buildNo /\ buildNo > 0) =>
             /\ Step("clean", "") \in Range(trace)
             /\ output[p].kind \in {"item", "list"} =>
                  Step("section", output[p].sec) \in Range(trace)
             /\ output[p].kind = "home" => Step("home", "") \in Range(trace)
             /\ output[p].kind = "sitemap" => Step("sitemap", "") \in Range(trace)

FailureKeepsFiles ==
    (~failed /\ failed') =>
        /\ bpc' = "idle"
        /\ trace' = trace
        /\ \A p \in DOMAIN output :
             /\ p \in DOMAIN output'
             /\ output'[p] = output[p] \/ output'[p].build = buildNo

\* C10: a build cleans, then renders the sections in declared order, then
\* writes the homepage, then the sitemap; a step that fails ends the build,
\* no later step runs and the files written so far stay.
C10_StepsInOrder == [][FailureKeepsFiles]_vars /\ []WrittenInOrder

\* a build has failed after it wrote an item's page
C10_FailedAfterWriting ==
    /\ failed
    /\ \E p \in DOMAIN output : output[p].kind = "item" /\ output[p].build = buildNo
    /\ Len(trace) = 2

====
